---- MODULE Spec2Model ----
(***************************************************************************)
(* Model of the wgpu-instancing frame orchestrator (src/src/app/mod.rs),   *)
(* its mesh resource (src/src/app/mesh.rs) and the part of the camera      *)
(* controller the orchestrator drives (src/src/app/camera.rs).             *)
(*                                                                         *)
(* The application is a set of winit callbacks on one thread.  Each action *)
(* below is one callback, run to completion.  Lengths are in pixels, time  *)
(* in milliseconds, angles in micro-radians.                               *)
(***************************************************************************)
EXTENDS Integers, Sequences, FiniteSets, TLC

VARIABLES
    surface_config,          \* App.surface_config (host-side wgpu::SurfaceConfiguration)
    surface,                 \* what App.surface was last configured with on the device
    multisample_framebuffer, \* descriptor of the texture behind App.multisample_framebuffer
    pipelines,               \* App.pipelines
    cube_mesh,               \* App.cube_mesh
    camera,                  \* App.camera
    camera_controller,       \* App.camera_controller
    camera_buffer,           \* contents of App.camera_buffer
    positions,               \* App.positions (host copy of the initial positions)
    velocities,              \* App.velocities (host copy of the initial velocities)
    positions_buffer,        \* App.positions_buffer (GPU resident)
    velocities_buffer,       \* App.velocities_buffer (GPU resident)
    time,                    \* App.time
    last_delta,              \* App.last_delta
    queue,                   \* command buffers submitted to App.queue, in order
    presented,               \* number of swapchain images presented
    exit_requested,          \* event_loop.exit() has been called
    redraw_requested,        \* window.request_redraw() is pending
    compute_pass,            \* compute pass recorded by the last callback (NoPass if none)
    render_pass,             \* render pass recorded by the last callback (NoPass if none)
    ev                       \* the last callback: its inputs and the calls it made

vars == <<surface_config, surface, multisample_framebuffer, pipelines, cube_mesh,
          camera, camera_controller, camera_buffer, positions, velocities,
          positions_buffer,
          velocities_buffer, time, last_delta, queue, presented, exit_requested,
          redraw_requested, compute_pass, render_pass, ev>>

(***************************************************************************)
(* Bounds of the model.                                                    *)
(***************************************************************************)
MaxQueue == 3    \* command buffers submitted in one run
MaxTime == 1     \* the clock reads 0..MaxTime
MaxMouse == 1    \* MouseMotion events delivered in one run
MaxIndices == 2  \* length of an index list handed to Mesh::create
MaxVertices == 2 \* number of vertices handed to Mesh::create
MaxInstance == 2 \* instance range bounds range over 0..MaxInstance
MousePixels == 200  \* |dx| = |dy| of one MouseMotion event

\* PhysicalSize values a window reports; a minimised window reports a zero side.
Sizes == {[width |-> 0, height |-> 0], [width |-> 0, height |-> 1],
          [width |-> 1, height |-> 0], [width |-> 1, height |-> 1],
          [width |-> 2, height |-> 1]}
\* Sizes of a window that has just been created.
WindowSizes == {size \in Sizes : size.width >= 1 /\ size.height >= 1}
Formats == {"Bgra8Unorm", "Bgra8UnormSrgb"}
SurfaceErrors == {"Lost", "Outdated", "OutOfMemory", "Timeout", "Other"}
AcquireOutcomes == {"Ok"} \cup SurfaceErrors
MouseDeltas == {<<MousePixels, MousePixels>>}  \* (dx, dy) of a MouseMotion event

NoPass == [kind |-> "none"]
NoSize == [width |-> -1, height |-> -1]

Count(s, x) == Cardinality({i \in 1 .. Len(s) : s[i] = x})

(***************************************************************************)
(* Program constants.                                                      *)
(***************************************************************************)
DIMENSIONS == <<1024, 1024, 4>>
WORKGROUP_DIMS == <<8, 8, 1>>
OBJECT_COUNT == DIMENSIONS[1] * DIMENSIONS[2] * DIMENSIONS[3]
MULTISAMPLE_SAMPLES == 8
SENSITIVITY == 5000       \* CameraController::new(1.0, 0.005): 0.005 rad per pixel
FRAC_PI_2 == 1570796      \* std::f32::consts::FRAC_PI_2, in microradians
PITCH_LIMIT == 1569796    \* FRAC_PI_2 - 0.001
INITIAL_LAST_DELTA == 1   \* last_delta: 0.001 s

CubeVertexCount == 8
CubeIndices == <<0, 1, 2, 0, 2, 3, 4, 6, 5, 4, 7, 6, 0, 5, 1, 0, 4, 5,
                 3, 2, 6, 3, 6, 7, 3, 4, 0, 3, 7, 4, 1, 6, 2, 1, 5, 6>>

(***************************************************************************)
(* Surface and multisample target.                                         *)
(***************************************************************************)
\* wgpu::TextureFormat::add_srgb_suffix, as used by App::new.
add_srgb_suffix(format) ==
    CASE format = "Bgra8Unorm" -> "Bgra8UnormSrgb"
      [] format = "Rgba8Unorm" -> "Rgba8UnormSrgb"
      [] OTHER -> format

\* The descriptor of the texture whose default view is returned.
create_multisampled_framebuffer(config, sample_count) ==
    [width |-> config.width,
     height |-> config.height,
     depth_or_array_layers |-> 1,
     mip_level_count |-> 1,
     sample_count |-> sample_count,
     format |-> config.view_formats[1]]

\* surface.get_default_config(..) followed by pushing the sRGB view format.
initial_surface_config(size, format) ==
    [width |-> size.width,
     height |-> size.height,
     format |-> format,
     view_formats |-> <<add_srgb_suffix(format)>>]

(***************************************************************************)
(* Pipelines.                                                              *)
(***************************************************************************)
default_pipeline(color_format) ==
    [kind |-> "Render",
     multisample_count |-> MULTISAMPLE_SAMPLES,
     target_format |-> color_format]

\* The compute selector mapped to a pipeline of the Render variant.
compute_pipeline_render_variant ==
    [kind |-> "Render", multisample_count |-> 0, target_format |-> "none"]

compute_pipeline ==
    [kind |-> "Compute", multisample_count |-> 0, target_format |-> "none"]

(***************************************************************************)
(* Mesh resource.                                                          *)
(***************************************************************************)
\* vertices is the number of vertices uploaded, indices the index list.
Mesh_create(vertices, indices) ==
    [vertex_buffer |-> [id |-> "mesh.vertex_buffer", len |-> vertices],
     index_buffer |-> [id |-> "mesh.index_buffer", contents |-> indices],
     element_count |-> Len(indices)]

\* draw_instanced with the instance range restarted at zero.
draw_instanced_from_zero(mesh, instance_buffer, instances) ==
    << [op |-> "set_vertex_buffer", slot |-> 0, buffer |-> mesh.vertex_buffer.id],
       [op |-> "set_vertex_buffer", slot |-> 1, buffer |-> instance_buffer.id],
       [op |-> "set_index_buffer", buffer |-> mesh.index_buffer.id, format |-> "Uint32"],
       [op |-> "draw_indexed",
        indices |-> [start |-> 0, end |-> mesh.element_count],
        base_vertex |-> 0,
        instances |-> [start |-> 0, end |-> instances.end]] >>

\* The commands Mesh::draw_instanced records into a render pass, in order.
draw_instanced(mesh, instance_buffer, instances) ==
    << [op |-> "set_vertex_buffer", slot |-> 0, buffer |-> mesh.vertex_buffer.id],
       [op |-> "set_vertex_buffer", slot |-> 1, buffer |-> instance_buffer.id],
       [op |-> "set_index_buffer", buffer |-> mesh.index_buffer.id, format |-> "Uint32"],
       [op |-> "draw_indexed",
        indices |-> [start |-> 0, end |-> mesh.element_count],
        base_vertex |-> 0,
        instances |-> instances] >>

\* The commands Mesh::draw records into a render pass, in order.
draw(mesh) ==
    << [op |-> "set_vertex_buffer", slot |-> 0, buffer |-> mesh.vertex_buffer.id],
       [op |-> "set_index_buffer", buffer |-> mesh.index_buffer.id, format |-> "Uint32"],
       [op |-> "draw_indexed",
        indices |-> [start |-> 0, end |-> mesh.element_count],
        base_vertex |-> 0,
        instances |-> [start |-> 0, end |-> 1]] >>

\* Number of elements of a Range<u32>.
RangeLen(r) == IF r.end > r.start THEN r.end - r.start ELSE 0

(***************************************************************************)
(* Camera.                                                                 *)
(***************************************************************************)
RECURSIVE Gcd(_, _)
Gcd(a, b) == IF b = 0 THEN a ELSE Gcd(b, a % b)

\* width as f32 / height as f32, kept as a reduced fraction.
AspectOf(size) ==
    LET g == Gcd(size.width, size.height)
    IN  IF g = 0 THEN <<0, 0>> ELSE <<size.width \div g, size.height \div g>>

\* Camera::new.  The direction roty * rotx * unit_z is kept as its two angles.
Camera_new(aspect) ==
    [eye |-> <<0, 0, 1>>,
     direction |-> [yaw |-> 0, pitch |-> 0],
     aspect |-> aspect]

\* Camera::view: look_to_lh(eye, direction, up) with up = unit_y.
Camera_view(cam) == [look_to_lh |-> <<cam.eye, cam.direction>>]

\* The direction roty * rotx * unit_z is parallel to unit_y exactly when the
\* cosine of the pitch is zero: the pitch is an odd multiple of pi/2.
ParallelToUp(direction) ==
    (IF direction.pitch < 0 THEN -direction.pitch ELSE direction.pitch)
        % (2 * FRAC_PI_2) = FRAC_PI_2

None == [none |-> TRUE]

\* view.invert(): None for the singular matrix of a direction parallel to up;
\* uniform() unwraps the result.
Matrix4_invert(view) ==
    IF ParallelToUp(view.look_to_lh[2]) THEN None ELSE [invert |-> view]

\* Camera::uniform: the three matrices, each kept as the term it is computed from.
Camera_uniform(cam) ==
    [view |-> Camera_view(cam),
     inverse_view |-> Matrix4_invert(Camera_view(cam)),
     projection |-> [perspective |-> cam.aspect]]

CameraController_new == [camera_motion |-> <<0, 0>>]

Abs(x) == IF x < 0 THEN -x ELSE x

Clamp(x, lo, hi) == IF x < lo THEN lo ELSE IF x > hi THEN hi ELSE x

\* process_device_events that leaves the pitch as accumulated.
process_device_events_unclamped(controller, dx, dy) ==
    [controller EXCEPT
        !.camera_motion =
            << controller.camera_motion[1] - dx * SENSITIVITY,
               controller.camera_motion[2] - dy * SENSITIVITY >>]

\* CameraController::process_device_events on MouseMotion { delta: (dx, dy) }.
process_device_events(controller, dx, dy) ==
    [controller EXCEPT
        !.camera_motion =
            << controller.camera_motion[1] - dx * SENSITIVITY,
               Clamp(controller.camera_motion[2] - dy * SENSITIVITY,
                     -PITCH_LIMIT, PITCH_LIMIT) >>]

\* CameraController::update with every key axis released: the direction follows
\* the accumulated mouse motion and the eye stays where it is.
CameraController_update(controller, cam) ==
    [cam EXCEPT !.direction = [yaw |-> controller.camera_motion[1],
                               pitch |-> controller.camera_motion[2]]]

(***************************************************************************)
(* Frame orchestrator: the methods of App, as the effects of one call.     *)
(***************************************************************************)
\* update_buffers that writes nothing.
update_buffers_skipped == << >>

\* App::update_buffers: the writes it makes to the camera buffer.
update_buffers == << Camera_uniform(camera) >>

\* resize that configures the surface and keeps the old multisample target.
resize_keeps_target(new_size) ==
    LET config == [surface_config EXCEPT !.width = new_size.width,
                                         !.height = new_size.height]
    IN  [surface_config |-> config,
         surface |-> config,
         multisample_framebuffer |-> multisample_framebuffer,
         calls |-> <<"resize", "configure">>]

\* resize that rebuilds the multisample target before it updates the configuration.
resize_target_from_old_config(new_size) ==
    LET config == [surface_config EXCEPT !.width = new_size.width,
                                         !.height = new_size.height]
    IN  [surface_config |-> config,
         surface |-> config,
         multisample_framebuffer |->
             create_multisampled_framebuffer(surface_config, MULTISAMPLE_SAMPLES),
         calls |-> <<"resize", "create_multisampled_framebuffer", "configure">>]

\* App::resize: the surface state it leaves.
resize(new_size) ==
    LET config == [surface_config EXCEPT !.width = new_size.width,
                                         !.height = new_size.height]
    IN  [surface_config |-> config,
         surface |-> config,
         multisample_framebuffer |->
             create_multisampled_framebuffer(config, MULTISAMPLE_SAMPLES),
         calls |-> <<"resize", "configure", "create_multisampled_framebuffer">>]

\* The render pass App::render records.
record_render_pass ==
    [kind |-> "render",
     color_attachment |-> multisample_framebuffer,
     resolve_target |-> [width |-> surface.width,
                         height |-> surface.height,
                         format |-> surface_config.view_formats[1]],
     load |-> "Clear(BLACK)",
     store |-> "Store",
     commands |->
         (IF pipelines["Default"].kind = "Render"
             THEN << [op |-> "set_pipeline", pipeline |-> "Default"] >>
             ELSE << >>)
         \o << [op |-> "set_bind_group", index |-> 0, group |-> "camera_bind_group"] >>
         \o draw_instanced(cube_mesh, positions_buffer,
                           [start |-> 0, end |-> positions.len])]

\* render that refreshes the camera buffer before it acquires the image.
render_updates_before_acquire(acquire) ==
    IF acquire # "Ok"
    THEN [result |-> acquire,
          calls |-> <<"render", "update_buffers", "write_buffer",
                      "get_current_texture">>,
          camera_writes |-> update_buffers,
          pass |-> NoPass,
          submits |-> << >>,
          presents |-> 0]
    ELSE [result |-> "Ok",
          calls |-> <<"render", "update_buffers", "write_buffer",
                      "get_current_texture", "create_view", "create_command_encoder",
                      "begin_render_pass", "end_render_pass", "finish", "submit",
                      "pre_present_notify", "present">>,
          camera_writes |-> update_buffers,
          pass |-> record_render_pass,
          submits |-> <<"render">>,
          presents |-> 1]

\* render that reports every acquisition failure as Lost.
render_collapses_errors(acquire) ==
    IF acquire # "Ok"
    THEN [result |-> "Lost",
          calls |-> <<"render", "get_current_texture">>,
          camera_writes |-> << >>,
          pass |-> NoPass,
          submits |-> << >>,
          presents |-> 0]
    ELSE [result |-> "Ok",
          calls |-> <<"render", "get_current_texture", "create_view",
                      "update_buffers", "write_buffer", "create_command_encoder",
                      "begin_render_pass", "end_render_pass", "finish", "submit",
                      "pre_present_notify", "present">>,
          camera_writes |-> update_buffers,
          pass |-> record_render_pass,
          submits |-> <<"render">>,
          presents |-> 1]

\* render that presents the image before it submits the command buffer.
render_presents_before_submit(acquire) ==
    IF acquire # "Ok"
    THEN [result |-> acquire,
          calls |-> <<"render", "get_current_texture">>,
          camera_writes |-> << >>,
          pass |-> NoPass,
          submits |-> << >>,
          presents |-> 0]
    ELSE [result |-> "Ok",
          calls |-> <<"render", "get_current_texture", "create_view",
                      "update_buffers", "write_buffer", "create_command_encoder",
                      "begin_render_pass", "end_render_pass", "finish",
                      "pre_present_notify", "present", "submit">>,
          camera_writes |-> update_buffers,
          pass |-> record_render_pass,
          submits |-> <<"render">>,
          presents |-> 1]

\* App::render, given what surface.get_current_texture() returns.
render(acquire) ==
    IF acquire # "Ok"
    THEN [result |-> acquire,
          calls |-> <<"render", "get_current_texture">>,
          camera_writes |-> << >>,
          pass |-> NoPass,
          submits |-> << >>,
          presents |-> 0]
    ELSE [result |-> "Ok",
          calls |-> <<"render", "get_current_texture", "create_view",
                      "update_buffers", "write_buffer", "create_command_encoder",
                      "begin_render_pass", "end_render_pass", "finish", "submit",
                      "pre_present_notify", "present">>,
          camera_writes |-> update_buffers,
          pass |-> record_render_pass,
          submits |-> <<"render">>,
          presents |-> 1]

\* The dispatch with the workgroup size taken from the wrong axis.
dispatch_workgroups_wrong_axis(dimensions, workgroup_dims) ==
    [op |-> "dispatch_workgroups",
     x |-> dimensions[1] \div workgroup_dims[3],
     y |-> dimensions[2] \div workgroup_dims[2],
     z |-> dimensions[3] \div workgroup_dims[1]]

\* The dispatch_workgroups command of App::update for a grid of the given
\* dimensions and workgroups of the given dimensions (u32 division).
dispatch_workgroups(dimensions, workgroup_dims) ==
    [op |-> "dispatch_workgroups",
     x |-> dimensions[1] \div workgroup_dims[1],
     y |-> dimensions[2] \div workgroup_dims[2],
     z |-> dimensions[3] \div workgroup_dims[3]]

\* The compute pass with the dispatch recorded twice.
record_compute_pass_dispatches_twice(delta) ==
    [kind |-> "compute",
     commands |->
         (IF pipelines["Compute"].kind = "Compute"
             THEN << [op |-> "set_pipeline", pipeline |-> "Compute"] >>
             ELSE << >>)
         \o << [op |-> "set_bind_group", index |-> 0, group |-> "pv_bind_group"],
               [op |-> "set_push_constants", offset |-> 0,
                data |-> [time |-> time', delta |-> delta]],
               dispatch_workgroups(DIMENSIONS, WORKGROUP_DIMS),
               dispatch_workgroups(DIMENSIONS, WORKGROUP_DIMS) >>]

\* The compute pass with the push constants built from the time of the
\* previous tick.
record_compute_pass_stale_time(delta) ==
    [kind |-> "compute",
     commands |->
         (IF pipelines["Compute"].kind = "Compute"
             THEN << [op |-> "set_pipeline", pipeline |-> "Compute"] >>
             ELSE << >>)
         \o << [op |-> "set_bind_group", index |-> 0, group |-> "pv_bind_group"],
               [op |-> "set_push_constants", offset |-> 0,
                data |-> [time |-> time, delta |-> delta]],
               dispatch_workgroups(DIMENSIONS, WORKGROUP_DIMS) >>]

\* The compute pass App::update records, after self.last_delta = delta; self.time
\* has already been advanced by about_to_wait.
record_compute_pass(delta) ==
    [kind |-> "compute",
     commands |->
         (IF pipelines["Compute"].kind = "Compute"
             THEN << [op |-> "set_pipeline", pipeline |-> "Compute"] >>
             ELSE << >>)
         \o << [op |-> "set_bind_group", index |-> 0, group |-> "pv_bind_group"],
               [op |-> "set_push_constants", offset |-> 0,
                data |-> [time |-> time', delta |-> delta]],
               dispatch_workgroups(DIMENSIONS, WORKGROUP_DIMS) >>]

\* The names of the commands of a pass, in order.
Ops(pass) == [i \in 1 .. Len(pass.commands) |-> pass.commands[i].op]

\* update that submits while its compute pass is still open.
update_submits_open_pass(delta) ==
    LET pass == record_compute_pass(delta) IN
    [camera |-> CameraController_update(camera_controller, camera),
     last_delta |-> delta,
     pass |-> pass,
     calls |-> <<"update", "create_command_encoder", "begin_compute_pass">>
               \o Ops(pass)
               \o <<"finish", "submit", "end_compute_pass">>,
     submits |-> <<"compute">>]

\* App::update(delta): the state it leaves, the pass it records and the calls
\* it makes, in order.
update(delta) ==
    LET pass == record_compute_pass(delta) IN
    [camera |-> CameraController_update(camera_controller, camera),
     last_delta |-> delta,
     pass |-> pass,
     calls |-> <<"update", "create_command_encoder", "begin_compute_pass">>
               \o Ops(pass)
               \o <<"end_compute_pass", "finish", "submit">>,
     submits |-> <<"compute">>]

\* The match with the Lost / Outdated arm only logging.
on_render_result_no_recovery(result) ==
    CASE result \in {"Lost", "Outdated"} -> "warn"
      [] result = "OutOfMemory" -> "exit"
      [] result = "Timeout" -> "warn"
      [] result = "Other" -> "warn"
      [] OTHER -> "nothing"

\* The match with Timeout treated like OutOfMemory.
on_render_result_timeout_fatal(result) ==
    CASE result \in {"Lost", "Outdated"} -> "resize"
      [] result \in {"OutOfMemory", "Timeout"} -> "exit"
      [] result = "Other" -> "warn"
      [] OTHER -> "nothing"

\* What the match on render()'s result in window_event does.
on_render_result(result) ==
    CASE result \in {"Lost", "Outdated"} -> "resize"
      [] result = "OutOfMemory" -> "exit"
      [] result = "Timeout" -> "warn"
      [] result = "Other" -> "warn"
      [] OTHER -> "nothing"

LastOf(s, default) == IF s = << >> THEN default ELSE s[Len(s)]

Event(kind, acquire, inner_size, result, calls, camera_writes, submits, presents, resizes, exits) ==
    [kind |-> kind, acquire |-> acquire, inner_size |-> inner_size,
     result |-> result, calls |-> calls, camera_writes |-> camera_writes,
     submits |-> submits, presents |-> presents, resizes |-> resizes,
     exits |-> exits,
     repeat |-> (resizes # << >> /\ resizes = ev.resizes)]

(***************************************************************************)
(* Initial state: App::new on a window of a non-empty size.                *)
(***************************************************************************)
Init ==
    \E size \in WindowSizes, format \in Formats :
        /\ surface_config = initial_surface_config(size, format)
        /\ surface = surface_config
        /\ multisample_framebuffer =
               create_multisampled_framebuffer(surface_config, MULTISAMPLE_SAMPLES)
        /\ pipelines = [selector \in {"Default", "Compute"} |->
                           IF selector = "Default"
                           THEN default_pipeline(surface_config.format)
                           ELSE compute_pipeline]
        /\ cube_mesh = Mesh_create(CubeVertexCount, CubeIndices)
        /\ camera = Camera_new(AspectOf(size))
        /\ camera_controller = CameraController_new
        /\ camera_buffer = Camera_uniform(camera)
        /\ positions = [len |-> OBJECT_COUNT]
        /\ velocities = [len |-> OBJECT_COUNT]
        /\ positions_buffer = [id |-> "positions_buffer", len |-> OBJECT_COUNT,
                               dispatches |-> 0]
        /\ velocities_buffer = [id |-> "velocities_buffer", len |-> OBJECT_COUNT,
                                dispatches |-> 0]
        /\ time = 0
        /\ last_delta = INITIAL_LAST_DELTA
        /\ queue = << >>
        /\ presented = 0
        /\ exit_requested = FALSE
        /\ redraw_requested = FALSE
        /\ compute_pass = NoPass
        /\ render_pass = NoPass
        /\ ev = [kind |-> "init", acquire |-> "none", inner_size |-> size,
                 result |-> "none", calls |-> << >>, camera_writes |-> << >>,
                 submits |-> << >>, presents |-> 0, resizes |-> << >>,
                 exits |-> 0, repeat |-> FALSE]

(***************************************************************************)
(* Callbacks.                                                              *)
(***************************************************************************)
\* Game::about_to_wait, the clock reading now ms since start_time; it calls
\* App::update(delta).
about_to_wait(now) ==
    LET delta == now - time
        u == update(delta)
        \* the dispatches of the submitted pass run on the GPU with both particle
        \* buffers bound read-write
        dispatched == Count(Ops(u.pass), "dispatch_workgroups") * Len(u.submits)
    IN
    /\ ~exit_requested
    /\ now >= time
    /\ time' = now
    /\ Len(queue) + Len(u.submits) <= MaxQueue
    /\ camera' = u.camera
    /\ last_delta' = u.last_delta
    /\ compute_pass' = u.pass
    /\ queue' = queue \o u.submits
    /\ positions_buffer' =
           [positions_buffer EXCEPT !.dispatches = @ + dispatched]
    /\ velocities_buffer' =
           [velocities_buffer EXCEPT !.dispatches = @ + dispatched]
    /\ render_pass' = NoPass
    /\ ev' = Event("about_to_wait", "none", NoSize, "none", u.calls,
                   << >>, u.submits, 0, << >>, 0)
    /\ UNCHANGED <<surface_config, surface, multisample_framebuffer, pipelines,
                   cube_mesh, camera_controller, camera_buffer, positions,
                   velocities, presented, exit_requested, redraw_requested>>

\* Game::window_event on WindowEvent::RedrawRequested.  acquire is what
\* get_current_texture() returns and inner_size what window.inner_size() reads.
RedrawRequested(acquire, inner_size) ==
    LET r == render(acquire)
        reaction == on_render_result(r.result)
        resized == IF reaction = "resize" THEN resize(inner_size)
                   ELSE [surface_config |-> surface_config,
                         surface |-> surface,
                         multisample_framebuffer |-> multisample_framebuffer,
                         calls |-> << >>]
    IN
    /\ ~exit_requested
    /\ Len(queue) + Len(r.submits) <= MaxQueue
    /\ redraw_requested' = TRUE
    /\ camera_buffer' = LastOf(r.camera_writes, camera_buffer)
    /\ render_pass' = r.pass
    /\ queue' = queue \o r.submits
    /\ presented' = presented + r.presents
    /\ surface_config' = resized.surface_config
    /\ surface' = resized.surface
    /\ multisample_framebuffer' = resized.multisample_framebuffer
    /\ exit_requested' = (exit_requested \/ reaction = "exit")
    /\ compute_pass' = NoPass
    /\ ev' = Event("redraw", acquire,
                   IF reaction = "resize" THEN inner_size ELSE NoSize,
                   r.result,
                   <<"request_redraw">> \o r.calls \o resized.calls
                       \o (IF reaction = "exit" THEN <<"exit">> ELSE << >>),
                   r.camera_writes, r.submits, r.presents,
                   IF reaction = "resize" THEN <<inner_size>> ELSE << >>,
                   IF reaction = "exit" THEN 1 ELSE 0)
    /\ UNCHANGED <<pipelines, cube_mesh, camera, camera_controller, positions,
                   velocities, positions_buffer, velocities_buffer, time,
                   last_delta>>

\* Resized that uploads the initial particle data again.
Resized_reuploads_particles(new_size) ==
    LET resized == resize(new_size) IN
    /\ ~exit_requested
    /\ surface_config' = resized.surface_config
    /\ surface' = resized.surface
    /\ multisample_framebuffer' = resized.multisample_framebuffer
    /\ positions_buffer' = [positions_buffer EXCEPT !.dispatches = 0]
    /\ velocities_buffer' = [velocities_buffer EXCEPT !.dispatches = 0]
    /\ compute_pass' = NoPass
    /\ render_pass' = NoPass
    /\ ev' = Event("resized", "none", NoSize, "none", resized.calls, << >>,
                   << >>, 0, <<new_size>>, 0)
    /\ UNCHANGED <<pipelines, cube_mesh, camera, camera_controller, camera_buffer,
                   positions, velocities, time, last_delta, queue, presented,
                   exit_requested, redraw_requested>>

\* Resized that also hands the new aspect ratio to the camera.
Resized_changes_aspect(new_size) ==
    LET resized == resize(new_size) IN
    /\ ~exit_requested
    /\ surface_config' = resized.surface_config
    /\ surface' = resized.surface
    /\ multisample_framebuffer' = resized.multisample_framebuffer
    /\ camera' = [camera EXCEPT !.aspect = AspectOf(new_size)]
    /\ compute_pass' = NoPass
    /\ render_pass' = NoPass
    /\ ev' = Event("resized", "none", NoSize, "none", resized.calls, << >>,
                   << >>, 0, <<new_size>>, 0)
    /\ UNCHANGED <<pipelines, cube_mesh, camera_controller, camera_buffer,
                   positions, velocities, positions_buffer, velocities_buffer,
                   time, last_delta, queue, presented, exit_requested,
                   redraw_requested>>

\* Game::window_event on WindowEvent::Resized(new_size).
Resized(new_size) ==
    LET resized == resize(new_size) IN
    /\ ~exit_requested
    /\ surface_config' = resized.surface_config
    /\ surface' = resized.surface
    /\ multisample_framebuffer' = resized.multisample_framebuffer
    /\ compute_pass' = NoPass
    /\ render_pass' = NoPass
    /\ ev' = Event("resized", "none", NoSize, "none", resized.calls, << >>,
                   << >>, 0, <<new_size>>, 0)
    /\ UNCHANGED <<pipelines, cube_mesh, camera, camera_controller, camera_buffer,
                   positions, velocities, positions_buffer, velocities_buffer,
                   time, last_delta, queue, presented, exit_requested,
                   redraw_requested>>

\* Game::window_event on WindowEvent::CloseRequested.
CloseRequested ==
    /\ ~exit_requested
    /\ exit_requested' = TRUE
    /\ compute_pass' = NoPass
    /\ render_pass' = NoPass
    /\ ev' = Event("close", "none", NoSize, "none", <<"exit">>, << >>, << >>,
                   0, << >>, 1)
    /\ UNCHANGED <<surface_config, surface, multisample_framebuffer, pipelines,
                   cube_mesh, camera, camera_controller, camera_buffer, positions,
                   velocities, positions_buffer, velocities_buffer, time,
                   last_delta, queue, presented, redraw_requested>>

\* Game::device_event on DeviceEvent::MouseMotion { delta: (dx, dy) }.
MouseMotion(dx, dy) ==
    /\ ~exit_requested
    /\ Abs(process_device_events(camera_controller, dx, dy).camera_motion[1])
           <= MaxMouse * MousePixels * SENSITIVITY
    /\ camera_controller' = process_device_events(camera_controller, dx, dy)
    /\ compute_pass' = NoPass
    /\ render_pass' = NoPass
    /\ ev' = Event("mouse_motion", "none", NoSize, "none",
                   <<"process_device_events">>, << >>, << >>, 0, << >>, 0)
    /\ UNCHANGED <<surface_config, surface, multisample_framebuffer, pipelines,
                   cube_mesh, camera, camera_buffer, positions, velocities,
                   positions_buffer, velocities_buffer, time, last_delta, queue,
                   presented, exit_requested, redraw_requested>>

\* window.inner_size() is read only on the Lost / Outdated arm.
InnerSizesRead(acquire) ==
    IF on_render_result(render(acquire).result) = "resize" THEN Sizes ELSE {NoSize}

Next ==
    \/ \E now \in 0 .. MaxTime : about_to_wait(now)
    \/ \E acquire \in AcquireOutcomes :
           \E inner_size \in InnerSizesRead(acquire) :
               RedrawRequested(acquire, inner_size)
    \/ \E new_size \in Sizes : Resized(new_size)
    \/ CloseRequested
    \/ \E d \in MouseDeltas : MouseMotion(d[1], d[2])

Spec == Init /\ [][Next]_vars

(***************************************************************************)
(* The mesh resource on its own: a mesh created from bounded inputs and a  *)
(* render pass that is being recorded, into which one draw call is made.   *)
(***************************************************************************)
RECURSIVE SeqsUpTo(_, _)
SeqsUpTo(S, n) ==
    IF n = 0 THEN {<< >>}
    ELSE LET shorter == SeqsUpTo(S, n - 1)
         IN  shorter \cup {Append(q, x) : q \in shorter, x \in S}

InstanceRanges == [start : 0 .. MaxInstance, end : 0 .. MaxInstance]

\* The commands already in the pass when the mesh is drawn.
PassPrefixes ==
    {<< >>,
     << [op |-> "set_pipeline", pipeline |-> "Default"],
        [op |-> "set_bind_group", index |-> 0, group |-> "camera_bind_group"] >>}

MeshIdle ==
    UNCHANGED <<surface_config, surface, multisample_framebuffer, pipelines,
                cube_mesh, camera, camera_controller, camera_buffer, positions,
                velocities, positions_buffer, velocities_buffer, time, last_delta,
                queue, presented, exit_requested, redraw_requested, compute_pass>>

MeshInit ==
    \E vertices \in 0 .. MaxVertices,
       indices \in SeqsUpTo(0 .. MaxVertices, MaxIndices),
       prefix \in PassPrefixes :
        LET size == [width |-> 1, height |-> 1] IN
        /\ cube_mesh = Mesh_create(vertices, indices)
        /\ render_pass = [kind |-> "render", commands |-> prefix]
        /\ ev = [kind |-> "begin_render_pass", instance_buffer |-> "none",
                 instances |-> [start |-> 0, end |-> 0], recorded |-> Len(prefix)]
        /\ surface_config = initial_surface_config(size, "Bgra8Unorm")
        /\ surface = surface_config
        /\ multisample_framebuffer =
               create_multisampled_framebuffer(surface_config, MULTISAMPLE_SAMPLES)
        /\ pipelines = [selector \in {"Default", "Compute"} |->
                           IF selector = "Default"
                           THEN default_pipeline(surface_config.format)
                           ELSE compute_pipeline]
        /\ camera = Camera_new(AspectOf(size))
        /\ camera_controller = CameraController_new
        /\ camera_buffer = Camera_uniform(camera)
        /\ positions = [len |-> OBJECT_COUNT]
        /\ velocities = [len |-> OBJECT_COUNT]
        /\ positions_buffer = [id |-> "positions_buffer", len |-> OBJECT_COUNT,
                               dispatches |-> 0]
        /\ velocities_buffer = [id |-> "velocities_buffer", len |-> OBJECT_COUNT,
                                dispatches |-> 0]
        /\ time = 0
        /\ last_delta = INITIAL_LAST_DELTA
        /\ queue = << >>
        /\ presented = 0
        /\ exit_requested = FALSE
        /\ redraw_requested = FALSE
        /\ compute_pass = NoPass

\* mesh.draw_instanced(&mut render_pass, instance_buffer, instances)
Mesh_draw_instanced(instance_buffer, instances) ==
    /\ ev.kind = "begin_render_pass"
    /\ render_pass' = [render_pass EXCEPT !.commands =
                          @ \o draw_instanced(cube_mesh, instance_buffer, instances)]
    /\ ev' = [kind |-> "draw_instanced", instance_buffer |-> instance_buffer.id,
              instances |-> instances, recorded |-> Len(render_pass.commands)]
    /\ MeshIdle

\* mesh.draw(&mut render_pass)
Mesh_draw ==
    /\ ev.kind = "begin_render_pass"
    /\ render_pass' = [render_pass EXCEPT !.commands = @ \o draw(cube_mesh)]
    /\ ev' = [kind |-> "draw", instance_buffer |-> "none",
              instances |-> [start |-> 0, end |-> 1],
              recorded |-> Len(render_pass.commands)]
    /\ MeshIdle

MeshNext ==
    \/ \E buffer \in {positions_buffer, velocities_buffer},
          instances \in InstanceRanges :
           Mesh_draw_instanced(buffer, instances)
    \/ Mesh_draw

SpecMesh == MeshInit /\ [][MeshNext]_vars

(***************************************************************************)
(* The dispatch of update on its own: a compute pass that is being         *)
(* recorded, for a grid and a workgroup size drawn from bounded sets (the  *)
(* configured DIMENSIONS and WORKGROUP_DIMS among them).                   *)
(***************************************************************************)
MaxGrid == 4
MaxWorkgroup == 3

Grids == ((1 .. MaxGrid) \X (1 .. MaxGrid) \X (1 .. MaxGrid)) \cup {DIMENSIONS}
Workgroups ==
    ((1 .. MaxWorkgroup) \X (1 .. MaxWorkgroup) \X (1 .. MaxWorkgroup))
        \cup {WORKGROUP_DIMS}

DispatchIdle ==
    UNCHANGED <<surface_config, surface, multisample_framebuffer, pipelines,
                cube_mesh, camera, camera_controller, camera_buffer, positions,
                velocities, positions_buffer, velocities_buffer, time, last_delta,
                queue, presented, exit_requested, redraw_requested, render_pass>>

DispatchInit ==
    \E dimensions \in Grids, workgroup_dims \in Workgroups :
        LET size == [width |-> 1, height |-> 1] IN
        /\ compute_pass = [kind |-> "compute", commands |-> << >>]
        /\ ev = [kind |-> "begin_compute_pass", dimensions |-> dimensions,
                 workgroup_dims |-> workgroup_dims]
        /\ render_pass = NoPass
        /\ cube_mesh = Mesh_create(CubeVertexCount, CubeIndices)
        /\ surface_config = initial_surface_config(size, "Bgra8Unorm")
        /\ surface = surface_config
        /\ multisample_framebuffer =
               create_multisampled_framebuffer(surface_config, MULTISAMPLE_SAMPLES)
        /\ pipelines = [selector \in {"Default", "Compute"} |->
                           IF selector = "Default"
                           THEN default_pipeline(surface_config.format)
                           ELSE compute_pipeline]
        /\ camera = Camera_new(AspectOf(size))
        /\ camera_controller = CameraController_new
        /\ camera_buffer = Camera_uniform(camera)
        /\ positions = [len |-> OBJECT_COUNT]
        /\ velocities = [len |-> OBJECT_COUNT]
        /\ positions_buffer = [id |-> "positions_buffer", len |-> OBJECT_COUNT,
                               dispatches |-> 0]
        /\ velocities_buffer = [id |-> "velocities_buffer", len |-> OBJECT_COUNT,
                                dispatches |-> 0]
        /\ time = 0
        /\ last_delta = INITIAL_LAST_DELTA
        /\ queue = << >>
        /\ presented = 0
        /\ exit_requested = FALSE
        /\ redraw_requested = FALSE

\* compute_pass.dispatch_workgroups(DIMENSIONS.0 / WORKGROUP_DIMS.0, ...)
Dispatch ==
    /\ ev.kind = "begin_compute_pass"
    /\ compute_pass' = [compute_pass EXCEPT !.commands =
                           Append(@, dispatch_workgroups(ev.dimensions,
                                                         ev.workgroup_dims))]
    /\ ev' = [ev EXCEPT !.kind = "dispatch_workgroups"]
    /\ DispatchIdle

DispatchNext == Dispatch

SpecDispatch == DispatchInit /\ [][DispatchNext]_vars

(***************************************************************************)
(* The camera on its own: mouse motion of either sign, large enough to     *)
(* reach the pitch clamp, followed by CameraController::update and by the  *)
(* camera buffer write of update_buffers.                                  *)
(***************************************************************************)
MaxPixels == 400  \* |dx| = |dy| of one MouseMotion event
MaxTurn == 1      \* the yaw stays within MaxTurn events of its start

CameraDeltas == {-MaxPixels, MaxPixels} \X {-MaxPixels, MaxPixels}

CameraIdle ==
    UNCHANGED <<surface_config, surface, multisample_framebuffer, pipelines,
                cube_mesh, positions, velocities, positions_buffer,
                velocities_buffer, time, last_delta, queue, presented,
                exit_requested, redraw_requested, compute_pass, render_pass>>

CameraEvent(kind, dx, dy) ==
    [kind |-> kind, dx |-> dx, dy |-> dy, before |-> camera_controller.camera_motion]

CameraInit ==
    LET size == [width |-> 1, height |-> 1] IN
    /\ camera = Camera_new(AspectOf(size))
    /\ camera_controller = CameraController_new
    /\ camera_buffer = Camera_uniform(camera)
    /\ ev = CameraEvent("new", 0, 0)
    /\ compute_pass = NoPass
    /\ render_pass = NoPass
    /\ cube_mesh = Mesh_create(CubeVertexCount, CubeIndices)
    /\ surface_config = initial_surface_config(size, "Bgra8Unorm")
    /\ surface = surface_config
    /\ multisample_framebuffer =
           create_multisampled_framebuffer(surface_config, MULTISAMPLE_SAMPLES)
    /\ pipelines = [selector \in {"Default", "Compute"} |->
                       IF selector = "Default"
                       THEN default_pipeline(surface_config.format)
                       ELSE compute_pipeline]
    /\ positions = [len |-> OBJECT_COUNT]
    /\ velocities = [len |-> OBJECT_COUNT]
    /\ positions_buffer = [id |-> "positions_buffer", len |-> OBJECT_COUNT,
                           dispatches |-> 0]
    /\ velocities_buffer = [id |-> "velocities_buffer", len |-> OBJECT_COUNT,
                            dispatches |-> 0]
    /\ time = 0
    /\ last_delta = INITIAL_LAST_DELTA
    /\ queue = << >>
    /\ presented = 0
    /\ exit_requested = FALSE
    /\ redraw_requested = FALSE

\* App::device_event on MouseMotion { delta: (dx, dy) }.
CameraMouseMotion(dx, dy) ==
    /\ Abs(process_device_events(camera_controller, dx, dy).camera_motion[1])
           <= MaxTurn * MaxPixels * SENSITIVITY
    /\ camera_controller' = process_device_events(camera_controller, dx, dy)
    /\ ev' = CameraEvent("mouse_motion", dx, dy)
    /\ UNCHANGED <<camera, camera_buffer>>
    /\ CameraIdle

\* self.camera_controller.update(&mut self.camera, delta) in App::update.
CameraUpdate ==
    /\ camera' = CameraController_update(camera_controller, camera)
    /\ ev' = CameraEvent("update", 0, 0)
    /\ UNCHANGED <<camera_controller, camera_buffer>>
    /\ CameraIdle

\* App::update_buffers: camera.uniform() written to the camera buffer.
CameraUpdateBuffers ==
    /\ camera_buffer' = LastOf(update_buffers, camera_buffer)
    /\ ev' = CameraEvent("update_buffers", 0, 0)
    /\ UNCHANGED <<camera_controller, camera>>
    /\ CameraIdle

CameraNext ==
    \/ \E d \in CameraDeltas : CameraMouseMotion(d[1], d[2])
    \/ CameraUpdate
    \/ CameraUpdateBuffers

SpecCamera == CameraInit /\ [][CameraNext]_vars

(***************************************************************************)
(* The redraw loop on its own.  request_redraw() leaves a request pending  *)
(* on the window; the event loop delivers RedrawRequested for a pending    *)
(* request (the delivery it guarantees) and whenever the system asks for a *)
(* repaint (no guarantee).  ev.frame flips on every handled RedrawRequested.*)
(***************************************************************************)
\* request_redraw called only once the frame has been rendered.
request_redraw_only_after_ok(acquire) == acquire = "Ok"

\* self.window.request_redraw() is the first statement of the RedrawRequested
\* arm: a request is pending after the handler whatever render() returns.
request_redraw(acquire) == TRUE

LoopIdle ==
    UNCHANGED <<pipelines, cube_mesh, camera, camera_controller, positions,
                velocities, positions_buffer, velocities_buffer, time, last_delta,
                compute_pass>>

LoopInit ==
    \E size \in WindowSizes :
        /\ surface_config = initial_surface_config(size, "Bgra8UnormSrgb")
        /\ surface = surface_config
        /\ multisample_framebuffer =
               create_multisampled_framebuffer(surface_config, MULTISAMPLE_SAMPLES)
        /\ pipelines = [selector \in {"Default", "Compute"} |->
                           IF selector = "Default"
                           THEN default_pipeline(surface_config.format)
                           ELSE compute_pipeline]
        /\ cube_mesh = Mesh_create(CubeVertexCount, CubeIndices)
        /\ camera = Camera_new(AspectOf(size))
        /\ camera_controller = CameraController_new
        /\ camera_buffer = Camera_uniform(camera)
        /\ positions = [len |-> OBJECT_COUNT]
        /\ velocities = [len |-> OBJECT_COUNT]
        /\ positions_buffer = [id |-> "positions_buffer", len |-> OBJECT_COUNT,
                               dispatches |-> 0]
        /\ velocities_buffer = [id |-> "velocities_buffer", len |-> OBJECT_COUNT,
                                dispatches |-> 0]
        /\ time = 0
        /\ last_delta = INITIAL_LAST_DELTA
        /\ queue = << >>
        /\ presented = 0
        /\ exit_requested = FALSE
        /\ redraw_requested = FALSE
        /\ compute_pass = NoPass
        /\ render_pass = NoPass
        /\ ev = [kind |-> "new", result |-> "none", calls |-> << >>,
                 resizes |-> << >>, frame |-> 0]

\* The RedrawRequested arm of App::window_event.
LoopHandler(acquire, inner_size) ==
    LET r == render(acquire)
        reaction == on_render_result(r.result)
        resized == IF reaction = "resize" THEN resize(inner_size)
                   ELSE [surface_config |-> surface_config,
                         surface |-> surface,
                         multisample_framebuffer |-> multisample_framebuffer,
                         calls |-> << >>]
    IN
    /\ ~exit_requested
    /\ Len(queue) + Len(r.submits) <= MaxQueue
    /\ redraw_requested' = request_redraw(acquire)
    /\ camera_buffer' = LastOf(r.camera_writes, camera_buffer)
    /\ render_pass' = r.pass
    /\ queue' = queue \o r.submits
    /\ presented' = presented + r.presents
    /\ surface_config' = resized.surface_config
    /\ surface' = resized.surface
    /\ multisample_framebuffer' = resized.multisample_framebuffer
    /\ exit_requested' = (exit_requested \/ reaction = "exit")
    /\ ev' = [kind |-> "redraw",
              result |-> r.result,
              calls |-> (IF request_redraw(acquire) THEN <<"request_redraw">>
                         ELSE << >>)
                        \o r.calls \o resized.calls
                        \o (IF reaction = "exit" THEN <<"exit">> ELSE << >>),
              resizes |-> IF reaction = "resize" THEN <<inner_size>> ELSE << >>,
              frame |-> 1 - ev.frame]
    /\ LoopIdle

\* RedrawRequested delivered because the system asked for a repaint.
LoopRepaint(acquire, inner_size) == LoopHandler(acquire, inner_size)

\* RedrawRequested delivered for the pending request_redraw().
LoopRequested(acquire, inner_size) ==
    /\ redraw_requested
    /\ LoopHandler(acquire, inner_size)

\* WindowEvent::CloseRequested: event_loop.exit().
LoopCloseRequested ==
    /\ ~exit_requested
    /\ exit_requested' = TRUE
    /\ render_pass' = NoPass
    /\ ev' = [ev EXCEPT !.kind = "close", !.result = "none", !.calls = <<"exit">>,
                        !.resizes = << >>]
    /\ UNCHANGED <<surface_config, surface, multisample_framebuffer, camera_buffer,
                   queue, presented, redraw_requested>>
    /\ LoopIdle

LoopDelivery ==
    \E acquire \in AcquireOutcomes :
        \E inner_size \in InnerSizesRead(acquire) :
            LoopRequested(acquire, inner_size)

LoopNext ==
    \/ \E acquire \in AcquireOutcomes :
           \E inner_size \in InnerSizesRead(acquire) :
               LoopRepaint(acquire, inner_size)
    \/ LoopDelivery
    \/ LoopCloseRequested

SpecLoop == LoopInit /\ [][LoopNext]_vars /\ WF_vars(LoopDelivery)

(***************************************************************************)
(* Properties.                                                             *)
(***************************************************************************)
SurfaceState == <<surface_config, surface, multisample_framebuffer>>

\* C1: a RedrawRequested whose render() fails with Lost or Outdated calls resize
\* exactly once, with the window's inner size, which configures the surface and
\* rebuilds the multisample target at that size; render() is called once in the
\* handler and exit is not requested.
LostOutdatedReconfiguresOnce ==
    (ev.kind = "redraw" /\ ev.result \in {"Lost", "Outdated"}) =>
        /\ ev.resizes = <<ev.inner_size>>
        /\ Count(ev.calls, "resize") = 1
        /\ Count(ev.calls, "configure") = 1
        /\ Count(ev.calls, "create_multisampled_framebuffer") = 1
        /\ surface_config.width = ev.inner_size.width
        /\ surface_config.height = ev.inner_size.height
        /\ surface = surface_config
        /\ multisample_framebuffer.width = ev.inner_size.width
        /\ multisample_framebuffer.height = ev.inner_size.height
        /\ Count(ev.calls, "render") = 1
        /\ Count(ev.calls, "get_current_texture") = 1
        /\ ev.exits = 0
        /\ ~exit_requested

\* A window created 1x1 lost its surface and was reconfigured to its new 2x1 size.
LostRecoveredAtNewSize ==
    /\ ev.kind = "redraw"
    /\ ev.result = "Lost"
    /\ ev.inner_size = [width |-> 2, height |-> 1]
    /\ camera.aspect = <<1, 1>>
    /\ multisample_framebuffer.width = 2

\* C2: a RedrawRequested whose render() fails with OutOfMemory requests exit and
\* leaves the surface configuration and the multisample target alone; no other
\* outcome of render() requests exit.
OutOfMemoryAloneRequestsExit ==
    [][ev'.kind = "redraw" =>
           /\ ev'.result = "OutOfMemory" =>
                  /\ exit_requested'
                  /\ ev'.exits = 1
                  /\ ev'.resizes = << >>
                  /\ Count(ev'.calls, "configure") = 0
                  /\ SurfaceState' = SurfaceState
           /\ ev'.result # "OutOfMemory" =>
                  /\ ~exit_requested'
                  /\ ev'.exits = 0]_vars

\* render() failed with OutOfMemory and exit is requested.
OutOfMemoryExited ==
    ev.kind = "redraw" /\ ev.acquire = "OutOfMemory" /\ exit_requested

\* C3: a RedrawRequested whose render() fails with Timeout or Other changes
\* neither the surface configuration, the multisample target, the camera buffer,
\* the particle buffers nor the pipelines; it submits nothing, presents nothing
\* and does not request exit.
TimeoutOtherDropFrame ==
    [][(ev'.kind = "redraw" /\ ev'.result \in {"Timeout", "Other"}) =>
           /\ SurfaceState' = SurfaceState
           /\ camera_buffer' = camera_buffer
           /\ ev'.camera_writes = << >>
           /\ UNCHANGED <<positions, velocities, positions_buffer, velocities_buffer>>
           /\ pipelines' = pipelines
           /\ queue' = queue
           /\ ev'.submits = << >>
           /\ presented' = presented
           /\ ev'.presents = 0
           /\ ~exit_requested'
           /\ ev'.exits = 0]_vars

\* A frame was dropped on Timeout while the camera buffer was out of date.
TimeoutWithStaleCameraBuffer ==
    /\ ev.kind = "redraw"
    /\ ev.result = "Timeout"
    /\ camera_buffer # Camera_uniform(camera)

\* C4: every render submission is directly preceded on the queue by a compute
\* submission (the first one follows a compute submission, and two render
\* submissions always have a compute submission between them).
ComputeSubmitBeforeRenderSubmit ==
    \A i \in 1 .. Len(queue) :
        queue[i] = "render" => (i > 1 /\ queue[i - 1] = "compute")

\* C5 as stated: every call to render(), whatever its outcome, writes the camera
\* buffer once and enqueues one submission.
EveryRenderWritesAndSubmits ==
    ev.kind = "redraw" => (Len(ev.camera_writes) = 1 /\ Len(ev.submits) = 1)

\* C5 as amended: a render() that acquires its image writes the uniform of the
\* current camera to the camera buffer once and enqueues exactly one submission;
\* a render() whose acquisition fails writes nothing and submits nothing.
RenderWritesAndSubmitsIffAcquired ==
    [][ev'.kind = "redraw" =>
           IF ev'.result = "Ok"
           THEN /\ ev'.camera_writes = << Camera_uniform(camera) >>
                /\ camera_buffer' = Camera_uniform(camera)
                /\ ev'.submits = <<"render">>
                /\ queue' = Append(queue, "render")
           ELSE /\ ev'.camera_writes = << >>
                /\ ev'.submits = << >>
                /\ camera_buffer' = camera_buffer
                /\ queue' = queue]_vars

\* A successful render() refreshed the camera buffer after the camera had turned.
RenderedWithTurnedCamera ==
    /\ ev.kind = "redraw"
    /\ ev.result = "Ok"
    /\ camera.direction.yaw # 0
    /\ camera_buffer = Camera_uniform(camera)

\* C6: render() returns the outcome of the acquisition: each of the five errors
\* unchanged, and Ok only with an image acquired, a render submission enqueued
\* last on the queue and the image presented.
RenderReturnsAcquisitionOutcome ==
    ev.kind = "redraw" =>
        /\ ev.result = ev.acquire
        /\ ev.result = "Ok" =>
               /\ ev.acquire = "Ok"
               /\ ev.submits = <<"render">>
               /\ ev.presents = 1
               /\ queue # << >>
               /\ queue[Len(queue)] = "render"
               /\ presented >= 1
               /\ render_pass.kind = "render"

\* render() handed an acquisition failure of the class Other to the handler.
OtherErrorPropagated ==
    ev.kind = "redraw" /\ ev.acquire = "Other" /\ ev.result = "Other"

\* C7: the width and height the surface is configured with, and those of the
\* multisample target, are never zero.
SurfaceDimensionsNeverZero ==
    /\ surface_config.width >= 1
    /\ surface_config.height >= 1
    /\ surface.width >= 1
    /\ surface.height >= 1
    /\ multisample_framebuffer.width >= 1
    /\ multisample_framebuffer.height >= 1

\* C8: the multisample target has the width, height and first view format of the
\* surface configuration and MULTISAMPLE_SAMPLES samples, and a recorded render
\* pass has a color attachment of the size of the image it resolves into.
MultisampleTargetMatchesSurface ==
    /\ multisample_framebuffer.width = surface_config.width
    /\ multisample_framebuffer.height = surface_config.height
    /\ multisample_framebuffer.sample_count = MULTISAMPLE_SAMPLES
    /\ multisample_framebuffer.format = surface_config.view_formats[1]
    /\ surface = surface_config
    /\ render_pass.kind = "render" =>
           /\ render_pass.color_attachment = multisample_framebuffer
           /\ render_pass.color_attachment.width = render_pass.resolve_target.width
           /\ render_pass.color_attachment.height = render_pass.resolve_target.height

\* A frame was rendered on a surface resized from the 1x1 it was created with.
RenderedAfterResize ==
    /\ render_pass.kind = "render"
    /\ camera.aspect = <<1, 1>>
    /\ surface_config.width = 2
    /\ render_pass.color_attachment.width = 2

\* C9: a resize with the size the previous callback already resized to leaves
\* the surface configuration, the configured surface and the multisample target
\* as they were.
ResizeIdempotent ==
    [][(ev'.resizes # << >> /\ ev'.resizes = ev.resizes) =>
           SurfaceState' = SurfaceState]_vars

\* Two Resized events in a row carried the same size, other than the initial one.
ResizedTwiceToSameSize ==
    /\ ev.kind = "resized"
    /\ ev.repeat
    /\ ev.resizes = << [width |-> 2, height |-> 1] >>
    /\ camera.aspect = <<1, 1>>

\* C10: on a mesh created from K indices, draw_instanced(pass, buffer, a..b)
\* appends to the pass: the mesh vertex buffer at slot 0, the given buffer at
\* slot 1, the index buffer, and one indexed draw of indices 0..K, base vertex
\* 0, instances a..b (b - a of them when a <= b); draw(pass) appends: the vertex
\* buffer at slot 0, the index buffer, and one indexed draw of indices 0..K,
\* base vertex 0, one instance, with nothing bound at slot 1.
MeshDrawCalls ==
    LET K == Len(cube_mesh.index_buffer.contents)
        n == Len(render_pass.commands)
        added == SubSeq(render_pass.commands, ev.recorded + 1, n)
    IN  /\ ev.kind = "draw_instanced" =>
               /\ Len(added) = 4
               /\ added[1] = [op |-> "set_vertex_buffer", slot |-> 0,
                              buffer |-> cube_mesh.vertex_buffer.id]
               /\ added[2] = [op |-> "set_vertex_buffer", slot |-> 1,
                              buffer |-> ev.instance_buffer]
               /\ added[3] = [op |-> "set_index_buffer",
                              buffer |-> cube_mesh.index_buffer.id,
                              format |-> "Uint32"]
               /\ added[4] = [op |-> "draw_indexed",
                              indices |-> [start |-> 0, end |-> K],
                              base_vertex |-> 0,
                              instances |-> ev.instances]
               /\ ev.instances.start <= ev.instances.end =>
                      RangeLen(added[4].instances)
                          = ev.instances.end - ev.instances.start
        /\ ev.kind = "draw" =>
               /\ Len(added) = 3
               /\ added[1] = [op |-> "set_vertex_buffer", slot |-> 0,
                              buffer |-> cube_mesh.vertex_buffer.id]
               /\ added[2] = [op |-> "set_index_buffer",
                              buffer |-> cube_mesh.index_buffer.id,
                              format |-> "Uint32"]
               /\ added[3] = [op |-> "draw_indexed",
                              indices |-> [start |-> 0, end |-> K],
                              base_vertex |-> 0,
                              instances |-> [start |-> 0, end |-> 1]]
               /\ RangeLen(added[3].instances) = 1
               /\ \A i \in 1 .. Len(added) :
                      added[i].op = "set_vertex_buffer" => added[i].slot # 1

\* A mesh of two indices was drawn with instances 1..2 from the velocities
\* buffer into a pass that already held two commands.
DrewInstancesOneToTwo ==
    /\ ev.kind = "draw_instanced"
    /\ ev.instances = [start |-> 1, end |-> 2]
    /\ ev.instance_buffer = "velocities_buffer"
    /\ cube_mesh.element_count = 2
    /\ ev.recorded = 2

\* C11: the position buffer has been written by exactly as many dispatches as
\* update has submitted compute passes, each pass holding one dispatch on the
\* position/velocity bind group; as many images have been presented as render
\* passes were submitted, and each render pass holds exactly one indexed draw,
\* of 4,194,304 = OBJECT_COUNT instances taken from the position buffer.
DispatchesAndDrawsCounted ==
    /\ positions_buffer.dispatches = Count(queue, "compute")
    /\ presented = Count(queue, "render")
    /\ compute_pass.kind = "compute" =>
           /\ Count(Ops(compute_pass), "dispatch_workgroups") = 1
           /\ \E i \in 1 .. Len(compute_pass.commands) :
                  compute_pass.commands[i] =
                      [op |-> "set_bind_group", index |-> 0, group |-> "pv_bind_group"]
    /\ render_pass.kind = "render" =>
           /\ Count(Ops(render_pass), "draw_indexed") = 1
           /\ \A i \in 1 .. Len(render_pass.commands) :
                  render_pass.commands[i].op = "draw_indexed" =>
                      /\ render_pass.commands[i].instances
                             = [start |-> 0, end |-> 4194304]
                      /\ RangeLen(render_pass.commands[i].instances) = OBJECT_COUNT
           /\ \E i \in 1 .. Len(render_pass.commands) :
                  render_pass.commands[i] =
                      [op |-> "set_vertex_buffer", slot |-> 1,
                       buffer |-> positions_buffer.id]

\* One update was followed by one successful render.
OneUpdateThenOneRender ==
    /\ queue = <<"compute", "render">>
    /\ ev.kind = "redraw"
    /\ render_pass.kind = "render"
    /\ positions_buffer.dispatches = 1
    /\ presented = 1

\* C12: DIMENSIONS is divisible by WORKGROUP_DIMS on every axis, the dispatch
\* recorded by update is (128, 128, 4), and its workgroup count times the
\* workgroup volume is 4,194,304 = OBJECT_COUNT, below 2^32 (n < 2^32 is
\* written n \div 2^16 < 2^16).
ConfiguredDispatchGrid ==
    /\ \A i \in 1 .. 3 : DIMENSIONS[i] % WORKGROUP_DIMS[i] = 0
    /\ OBJECT_COUNT = 4194304
    /\ (DIMENSIONS[1] * DIMENSIONS[2]) \div 65536 < 65536
    /\ OBJECT_COUNT \div 65536 < 65536
    /\ compute_pass.kind = "compute" =>
           \A i \in 1 .. Len(compute_pass.commands) :
               LET c == compute_pass.commands[i] IN
               c.op = "dispatch_workgroups" =>
                   /\ c.x = 128
                   /\ c.y = 128
                   /\ c.z = 4
                   /\ (c.x * c.y * c.z)
                          * (WORKGROUP_DIMS[1] * WORKGROUP_DIMS[2] * WORKGROUP_DIMS[3])
                      = OBJECT_COUNT

\* An update has recorded its dispatch.
DispatchRecorded ==
    /\ ev.kind = "about_to_wait"
    /\ compute_pass.kind = "compute"
    /\ Count(Ops(compute_pass), "dispatch_workgroups") = 1

\* C13: every index value stored in the index buffer of a mesh built by
\* Mesh::create is strictly less than the number of vertices in its vertex
\* buffer, for every vertices/indices pair create accepts.
IndicesWithinVertexBuffer ==
    \A i \in 1 .. Len(cube_mesh.index_buffer.contents) :
        cube_mesh.index_buffer.contents[i] < cube_mesh.vertex_buffer.len

\* C14: the host-side positions and velocities arrays always have length
\* OBJECT_COUNT and never change, a recorded render pass draws instances
\* 0..positions.len(), and the positions and velocities buffers keep their
\* identity and size and are written by nothing but the one dispatch of an
\* about_to_wait step: every other handler leaves them as they are.
ParticleBuffersWrittenOnlyByDispatch ==
    [][/\ positions.len = OBJECT_COUNT
       /\ velocities.len = OBJECT_COUNT
       /\ positions' = positions
       /\ velocities' = velocities
       /\ positions_buffer'.id = positions_buffer.id
       /\ positions_buffer'.len = positions_buffer.len
       /\ velocities_buffer'.id = velocities_buffer.id
       /\ velocities_buffer'.len = velocities_buffer.len
       /\ IF ev'.kind = "about_to_wait"
          THEN /\ positions_buffer'.dispatches = positions_buffer.dispatches + 1
               /\ velocities_buffer'.dispatches = velocities_buffer.dispatches + 1
          ELSE /\ positions_buffer' = positions_buffer
               /\ velocities_buffer' = velocities_buffer
       /\ render_pass'.kind = "render" =>
              \A i \in 1 .. Len(render_pass'.commands) :
                  render_pass'.commands[i].op = "draw_indexed" =>
                      render_pass'.commands[i].instances
                          = [start |-> 0, end |-> OBJECT_COUNT]]_vars

\* A Resized event arrived after the particle buffers had been dispatched on.
ResizedAfterDispatch ==
    /\ ev.kind = "resized"
    /\ positions_buffer.dispatches = 1
    /\ velocities_buffer.dispatches = 1
    /\ positions.len = OBJECT_COUNT

\* C15: the pipeline registry holds exactly the keys Default and Compute, the
\* pipelines App::new built for them (a Render and a Compute pipeline), in every
\* state; and every recorded pass binds its pipeline before its dispatch or draw.
PipelineRegistryFixed ==
    /\ DOMAIN pipelines = {"Default", "Compute"}
    /\ pipelines["Default"] = default_pipeline(surface_config.format)
    /\ pipelines["Default"].kind = "Render"
    /\ pipelines["Compute"] = compute_pipeline
    /\ pipelines["Compute"].kind = "Compute"
    /\ compute_pass.kind = "compute" =>
           /\ compute_pass.commands[1] = [op |-> "set_pipeline", pipeline |-> "Compute"]
           /\ \A i \in 1 .. Len(compute_pass.commands) :
                  compute_pass.commands[i].op = "dispatch_workgroups" => i > 1
    /\ render_pass.kind = "render" =>
           /\ render_pass.commands[1] = [op |-> "set_pipeline", pipeline |-> "Default"]
           /\ \A i \in 1 .. Len(render_pass.commands) :
                  render_pass.commands[i].op = "draw_indexed" => i > 1

\* Both lookups have been made: an update and a render after a resize.
BothPipelinesLookedUp ==
    /\ ev.kind = "redraw"
    /\ render_pass.kind = "render"
    /\ Count(queue, "compute") >= 1
    /\ surface_config.width = 2

\* C16: a step that calls resize (a Resized event, or a redraw recovering from
\* Lost or Outdated) leaves the positions and velocities arrays and buffers,
\* the simulation time, last_delta, the pipeline registry, the mesh, the camera
\* (its aspect ratio included) and the camera controller unchanged; of the
\* surface configuration only width and height change, and the multisample
\* target keeps its sample count and format.
ResizeKeepsSimulationState ==
    [][ev'.resizes # << >> =>
           /\ positions' = positions
           /\ velocities' = velocities
           /\ positions_buffer' = positions_buffer
           /\ velocities_buffer' = velocities_buffer
           /\ time' = time
           /\ last_delta' = last_delta
           /\ pipelines' = pipelines
           /\ cube_mesh' = cube_mesh
           /\ camera' = camera
           /\ camera_controller' = camera_controller
           /\ surface_config' = [surface_config EXCEPT
                                     !.width = ev'.resizes[1].width,
                                     !.height = ev'.resizes[1].height]
           /\ multisample_framebuffer'.sample_count
                  = multisample_framebuffer.sample_count
           /\ multisample_framebuffer'.format = multisample_framebuffer.format]_vars

\* A window that opened at 1x1 was resized to 2x1 after an update: the camera
\* still has the aspect ratio it was created with.
ResizedWithOldAspect ==
    /\ ev.kind = "resized"
    /\ ev.resizes = << [width |-> 2, height |-> 1] >>
    /\ ~ev.repeat
    /\ camera.aspect = <<1, 1>>
    /\ time = 1
    /\ positions_buffer.dispatches >= 1

\* C17: the dispatch issues ceil(N_axis / workgroup_axis) workgroups on each
\* axis, so that workgroups times workgroup size is at least N_axis on every
\* axis, for every positive grid dimension and workgroup dimension.
DispatchCoversGrid ==
    ev.kind = "dispatch_workgroups" =>
        \A i \in 1 .. Len(compute_pass.commands) :
            LET c == compute_pass.commands[i]
                n == ev.dimensions
                w == ev.workgroup_dims
            IN  /\ c.x = (n[1] + w[1] - 1) \div w[1]
                /\ c.y = (n[2] + w[2] - 1) \div w[2]
                /\ c.z = (n[3] + w[3] - 1) \div w[3]
                /\ c.x * w[1] >= n[1]
                /\ c.y * w[2] >= n[2]
                /\ c.z * w[3] >= n[3]

\* The place of the first x in the sequence s.
PosOf(s, x) == CHOOSE i \in 1 .. Len(s) : s[i] = x /\ \A j \in 1 .. i - 1 : s[j] # x

\* C18: the calls of one update are, in this order and each exactly once: create
\* the encoder, open one compute pass, bind the Compute pipeline, bind the
\* position/velocity bind group at group 0, write the push constants at offset
\* 0, dispatch once, close the pass, finish the encoder, submit; exactly one
\* command buffer is submitted and nothing stays open when update returns.
UpdateStageSequence ==
    ev.kind = "about_to_wait" =>
        /\ ev.calls = <<"update", "create_command_encoder", "begin_compute_pass",
                        "set_pipeline", "set_bind_group", "set_push_constants",
                        "dispatch_workgroups", "end_compute_pass", "finish",
                        "submit">>
        /\ Count(ev.calls, "begin_compute_pass") = Count(ev.calls, "end_compute_pass")
        /\ Count(ev.calls, "create_command_encoder") = Count(ev.calls, "finish")
        /\ PosOf(ev.calls, "end_compute_pass") < PosOf(ev.calls, "finish")
        /\ PosOf(ev.calls, "finish") < PosOf(ev.calls, "submit")
        /\ ev.submits = <<"compute">>
        /\ compute_pass.kind = "compute"
        /\ Len(compute_pass.commands) = 4
        /\ compute_pass.commands[1] = [op |-> "set_pipeline", pipeline |-> "Compute"]
        /\ compute_pass.commands[2] =
               [op |-> "set_bind_group", index |-> 0, group |-> "pv_bind_group"]
        /\ compute_pass.commands[3].op = "set_push_constants"
        /\ compute_pass.commands[3].offset = 0
        /\ compute_pass.commands[4].op = "dispatch_workgroups"
        /\ render_pass = NoPass

\* Two updates have run one after the other.
SecondUpdateReturned ==
    /\ ev.kind = "about_to_wait"
    /\ queue = <<"compute", "compute">>
    /\ compute_pass.kind = "compute"

\* C19: the simulation time starts at 0; an about_to_wait tick never moves it
\* back, and the push constants it writes carry time = the time of this tick
\* and delta = this time minus the time of the previous tick, which is also
\* what last_delta becomes; every other step leaves time and last_delta alone
\* (so the deltas passed to update add up to the current time).
PushConstantsCarryTimeAndDelta ==
    /\ time = 0
    /\ [][IF ev'.kind = "about_to_wait"
          THEN /\ time' >= time
               /\ last_delta' = time' - time
               /\ \E i \in 1 .. Len(compute_pass'.commands) :
                      compute_pass'.commands[i].op = "set_push_constants"
               /\ \A i \in 1 .. Len(compute_pass'.commands) :
                      compute_pass'.commands[i].op = "set_push_constants" =>
                          compute_pass'.commands[i].data
                              = [time |-> time', delta |-> time' - time]
          ELSE /\ time' = time
               /\ last_delta' = last_delta]_vars

\* A tick that advanced the clock wrote the new time and a delta of one unit.
TickAdvancedTime ==
    /\ ev.kind = "about_to_wait"
    /\ time = 1
    /\ last_delta = 1
    /\ compute_pass.kind = "compute"
    /\ compute_pass.commands[3].data = [time |-> 1, delta |-> 1]

\* C20: a redraw whose render() succeeds acquires the image, writes the camera
\* buffer, records the render pass (multisample target as color attachment, the
\* acquired image's view as resolve target, cleared to black, stored), submits,
\* calls pre_present_notify and presents, in this order and each exactly once;
\* a redraw whose acquisition fails presents nothing.
SuccessfulRenderOrder ==
    ev.kind = "redraw" =>
        IF ev.result = "Ok"
        THEN /\ \A c \in {"get_current_texture", "write_buffer", "begin_render_pass",
                          "end_render_pass", "submit", "pre_present_notify",
                          "present"} : Count(ev.calls, c) = 1
             /\ PosOf(ev.calls, "get_current_texture") < PosOf(ev.calls, "write_buffer")
             /\ PosOf(ev.calls, "write_buffer") < PosOf(ev.calls, "begin_render_pass")
             /\ PosOf(ev.calls, "begin_render_pass") < PosOf(ev.calls, "end_render_pass")
             /\ PosOf(ev.calls, "end_render_pass") < PosOf(ev.calls, "submit")
             /\ PosOf(ev.calls, "submit") < PosOf(ev.calls, "pre_present_notify")
             /\ PosOf(ev.calls, "pre_present_notify") < PosOf(ev.calls, "present")
             /\ Len(ev.camera_writes) = 1
             /\ ev.submits = <<"render">>
             /\ ev.presents = 1
             /\ render_pass.kind = "render"
             /\ render_pass.color_attachment = multisample_framebuffer
             /\ render_pass.resolve_target =
                    [width |-> surface.width, height |-> surface.height,
                     format |-> surface_config.view_formats[1]]
             /\ render_pass.load = "Clear(BLACK)"
             /\ render_pass.store = "Store"
        ELSE /\ Count(ev.calls, "get_current_texture") = 1
             /\ Count(ev.calls, "present") = 0
             /\ Count(ev.calls, "submit") = 0
             /\ ev.presents = 0
             /\ render_pass = NoPass

\* A second image was rendered and presented.
SecondImagePresented ==
    /\ ev.kind = "redraw"
    /\ ev.result = "Ok"
    /\ presented = 2
    /\ Count(ev.calls, "present") = 1
    /\ render_pass.load = "Clear(BLACK)"

\* C21: in every render pass recorded by render(), the pipeline stored under
\* Default has the multisample count of the pass's color attachment and its
\* color target format is the format of that attachment (the surface's first
\* view format), whatever surface format the adapter reported.
DefaultPipelineMatchesColorAttachment ==
    render_pass.kind = "render" =>
        /\ pipelines["Default"].kind = "Render"
        /\ pipelines["Default"].multisample_count
               = render_pass.color_attachment.sample_count
        /\ render_pass.color_attachment.format = surface_config.view_formats[1]
        /\ pipelines["Default"].target_format = render_pass.color_attachment.format

\* C22: after any sequence of MouseMotion events the accumulated pitch lies in
\* [-pi/2 + 0.001, pi/2 - 0.001] while the yaw is the plain sum of the motion
\* (not clamped); so the camera direction set by CameraController::update is
\* never parallel to the up vector, the view matrix has an inverse, and the
\* unwrap in Camera::uniform, as written to the camera buffer, never fails.
PitchClampedViewInvertible ==
    /\ PITCH_LIMIT = FRAC_PI_2 - 1000
    /\ camera_controller.camera_motion[2] >= -PITCH_LIMIT
    /\ camera_controller.camera_motion[2] <= PITCH_LIMIT
    /\ ev.kind = "mouse_motion" =>
           camera_controller.camera_motion[1] = ev.before[1] - ev.dx * SENSITIVITY
    /\ camera.direction.pitch >= -PITCH_LIMIT
    /\ camera.direction.pitch <= PITCH_LIMIT
    /\ ~ParallelToUp(camera.direction)
    /\ Matrix4_invert(Camera_view(camera)) # None
    /\ Camera_uniform(camera).inverse_view # None
    /\ camera_buffer.inverse_view # None

\* The mouse moved far enough to stop the pitch at its upper limit and to
\* carry the yaw past a quarter turn, and the camera buffer holds that view.
PitchAtLimitYawBeyondQuarterTurn ==
    /\ ev.kind = "update_buffers"
    /\ camera_controller.camera_motion[2] = PITCH_LIMIT
    /\ camera_controller.camera_motion[1] > FRAC_PI_2
    /\ camera.direction = [yaw |-> camera_controller.camera_motion[1],
                           pitch |-> PITCH_LIMIT]
    /\ camera_buffer = Camera_uniform(camera)

\* C23: every handled RedrawRequested calls request_redraw before render(),
\* whatever render() returns, so a request is pending afterwards; and once a
\* RedrawRequested has been handled, then unless exit is requested another
\* one is eventually handled, in particular after a Lost or Outdated failure.
RedrawLoopSelfSustaining ==
    /\ [](ev.kind = "redraw" =>
              /\ ev.calls[1] = "request_redraw"
              /\ Count(ev.calls, "request_redraw") = 1
              /\ PosOf(ev.calls, "request_redraw") < PosOf(ev.calls, "render")
              /\ redraw_requested)
    /\ \A frame \in {0, 1} :
           (ev.kind = "redraw" /\ ev.frame = frame /\ ~exit_requested)
               ~> (exit_requested \/ (ev.kind = "redraw" /\ ev.frame # frame))
    /\ \A frame \in {0, 1} :
           (/\ ev.kind = "redraw"
            /\ ev.result \in {"Lost", "Outdated"}
            /\ ev.frame = frame
            /\ ~exit_requested)
               ~> (exit_requested \/ (ev.kind = "redraw" /\ ev.frame # frame))

\* A frame was attempted after the frame before it had failed with Lost and
\* reconfigured the surface to 2x1: this one was rendered at that size.
RetriedAfterReconfigure ==
    /\ ev.kind = "redraw"
    /\ ev.result = "Ok"
    /\ ev.frame = 0
    /\ queue = <<"render">>
    /\ surface_config.width = 2
    /\ multisample_framebuffer.width = 2
    /\ redraw_requested
    /\ ~exit_requested

====
